---- MODULE Spec2Model ----
(***************************************************************************)
(* Model of pairs_trading_bot.py: check_cointegration, calculate_zscore,   *)
(* backtest, plot_results and the script's main flow.                      *)
(*                                                                         *)
(* Numbers.  A float is a record [k, n, d]: k = "fin" is the rational n/d  *)
(* in lowest terms with d > 0, k = "nan" is NaN.  Arithmetic is exact.     *)
(* A rolling standard deviation is the square root of a rational, so it is *)
(* kept as a "root" [k, n, d] standing for sqrt(n/d).  A z-score is a      *)
(* float divided by a root, kept as [k, sg, n, d]: k = "fin" is the number *)
(* sg * sqrt(n/d) with sg its sign; k = "inf", "ninf", "nan" are the IEEE  *)
(* results of dividing by zero.  A series is a sequence indexed 1..Len;    *)
(* source index t (0-based) is model index t + 1.                          *)
(***************************************************************************)
EXTENDS Integers, Sequences, FiniteSets, TLC

VARIABLES pc, calls, data, series_a, series_b, p_value, hedge_ratio, spread,
          window, z_score, entry_threshold, exit_threshold, positions, plot,
          error

vars == <<pc, calls, data, series_a, series_b, p_value, hedge_ratio, spread,
          window, z_score, entry_threshold, exit_threshold, positions, plot,
          error>>

(***************************************************************************)
(* Bounds of the explored inputs.                                          *)
(***************************************************************************)
MaxRows == 2

MaxLen == 3

MaxWindow == 4

(***************************************************************************)
(* Exact float arithmetic.                                                 *)
(***************************************************************************)
Abs(x) == IF x < 0 THEN -x ELSE x

Sign(x) == IF x < 0 THEN -1 ELSE IF x > 0 THEN 1 ELSE 0

RECURSIVE GCD(_, _)
GCD(a, b) == IF b = 0 THEN a ELSE GCD(b, a % b)

Fin(n, d) ==
    LET g == GCD(Abs(n), Abs(d))
        s == Sign(d)
    IN  [k |-> "fin", n |-> (s * n) \div g, d |-> (s * d) \div g]

F(i) == [k |-> "fin", n |-> i, d |-> 1]

NaN == [k |-> "nan", n |-> 0, d |-> 1]

IsNaN(x) == x.k = "nan"

FAdd(x, y) ==
    IF IsNaN(x) \/ IsNaN(y) THEN NaN
    ELSE Fin(x.n * y.d + y.n * x.d, x.d * y.d)

FNeg(x) == IF IsNaN(x) THEN NaN ELSE [k |-> "fin", n |-> -x.n, d |-> x.d]

FSub(x, y) == FAdd(x, FNeg(y))

FMul(x, y) ==
    IF IsNaN(x) \/ IsNaN(y) THEN NaN
    ELSE Fin(x.n * y.n, x.d * y.d)

\* x / y for y # 0 (every division of two floats in the model has y # 0)
FDiv(x, y) ==
    IF IsNaN(x) \/ IsNaN(y) THEN NaN
    ELSE Fin(x.n * y.d, x.d * y.n)

\* comparisons with NaN are False
FLt(x, y) == ~IsNaN(x) /\ ~IsNaN(y) /\ x.n * y.d < y.n * x.d

FEq(x, y) == ~IsNaN(x) /\ ~IsNaN(y) /\ x.n * y.d = y.n * x.d

\* s[lo] + ... + s[hi], summed by halves
RECURSIVE FSumRange(_, _, _)
FSumRange(s, lo, hi) ==
    IF lo > hi THEN F(0)
    ELSE IF lo = hi THEN s[lo]
    ELSE LET mid == (lo + hi) \div 2
         IN  FAdd(FSumRange(s, lo, mid), FSumRange(s, mid + 1, hi))

FSum(s) == FSumRange(s, 1, Len(s))

HasNaN(s) == \E i \in DOMAIN s : IsNaN(s[i])

IsConstant(s) == \A i, j \in DOMAIN s : s[i] = s[j]

(***************************************************************************)
(* check_cointegration                                                     *)
(***************************************************************************)
\* sm.add_constant(series1), has_constant='skip': a series that is already a
\* non-zero constant gets no 'const' column; any other series gets 'const'
\* prepended, so the series itself is column 1 (iloc[:, 1]).
add_constant(series1) ==
    IF Len(series1) > 0 /\ IsConstant(series1) /\ ~FEq(series1[1], F(0))
    THEN <<"x">>
    ELSE <<"const", "x">>

Mean(s) == FDiv(FSum(s), F(Len(s)))

\* sum over t of (a[t] - mean(a)) * (b[t] - mean(b))
CrossDev(a, b) ==
    FSum([t \in DOMAIN a |-> FMul(FSub(a[t], Mean(a)), FSub(b[t], Mean(b)))])

\* sm.OLS(series2, design).fit().params for a non-empty sample: the least
\* squares coefficients, one per design column (the minimum-norm solution
\* when the regressor is all zeros and the design is singular).
OLSParams(series2, design, x) ==
    IF design = <<"x">>
    THEN <<FDiv(FSum([t \in DOMAIN x |-> FMul(x[t], series2[t])]),
                FSum([t \in DOMAIN x |-> FMul(x[t], x[t])]))>>
    ELSE IF IsConstant(x)
    THEN <<Mean(series2), F(0)>>
    ELSE LET slope == FDiv(CrossDev(x, series2), CrossDev(x, x))
         IN  <<FSub(Mean(series2), FMul(slope, Mean(x))), slope>>

\* a variant of line 34: the textbook OLS residual, intercept subtracted
SpreadOf_Residual(series1, series2, hedge, params) ==
    [t \in DOMAIN series2 |->
        FSub(FSub(series2[t], FMul(hedge, series1[t])), params[1])]

\* line 34: series2 - hedge_ratio * series1.iloc[:, 1]
SpreadOf(series1, series2, hedge, params) ==
    [t \in DOMAIN series2 |-> FSub(series2[t], FMul(hedge, series1[t]))]

\* The p-values adfuller may return, and its failure: adfuller is a library
\* call whose value is not computed here; it returns a p-value in [0, 1] or
\* NaN, or raises ValueError (sample too short, constant input).  It always
\* raises on an empty sample.
PValues == {F(0), Fin(1, 100), Fin(1, 20), Fin(1, 2), F(1), NaN}

Raised(e) ==
    [error |-> e, p_value |-> NaN, hedge_ratio |-> NaN, spread |-> <<>>]

\* Every outcome of check_cointegration(series1, series2): a raised exception
\* or the returned (p_value, hedge_ratio, spread).
check_cointegration(series1, series2) ==
    IF Len(series1) = 0 THEN {Raised("ValueError")}
    ELSE LET design == add_constant(series1)
             params == OLSParams(series2, design, series1)
         IN  IF Len(params) < 2 THEN {Raised("IndexError")}
             ELSE LET hedge == params[2]
                      sp == SpreadOf(series1, series2, hedge, params)
                  IN  {Raised("ValueError")} \cup
                      {[error |-> "none", p_value |-> p,
                        hedge_ratio |-> hedge, spread |-> sp] : p \in PValues}

(***************************************************************************)
(* calculate_zscore                                                        *)
(***************************************************************************)
Window(series, w, t) == SubSeq(series, t - w + 1, t)

\* series.rolling(window=w).mean() at index t: NaN until w observations exist
RollingMean(series, w, t) ==
    IF w < 1 \/ t < w \/ HasNaN(Window(series, w, t)) THEN NaN
    ELSE FDiv(FSum(Window(series, w, t)), F(w))

\* the sample variance (ddof = 1) of the trailing window: NaN for w = 1
RollingVar(series, w, t) ==
    IF w < 2 \/ t < w \/ HasNaN(Window(series, w, t)) THEN NaN
    ELSE LET win == Window(series, w, t)
             m == FDiv(FSum(win), F(w))
         IN  FDiv(FSum([i \in DOMAIN win |->
                           FMul(FSub(win[i], m), FSub(win[i], m))]),
                  F(w - 1))

\* series.rolling(window=w).std() at index t, as the root of the variance
RollingStd(series, w, t) == RollingVar(series, w, t)

ZNaN == [k |-> "nan", sg |-> 0, n |-> 0, d |-> 1]

ZInf == [k |-> "inf", sg |-> 1, n |-> 0, d |-> 1]

ZNegInf == [k |-> "ninf", sg |-> -1, n |-> 0, d |-> 1]

\* the float x divided by the root r = sqrt(r.n / r.d), IEEE semantics
ZDiv(x, r) ==
    IF IsNaN(x) \/ IsNaN(r) THEN ZNaN
    ELSE IF r.n = 0
    THEN IF x.n = 0 THEN ZNaN ELSE IF x.n > 0 THEN ZInf ELSE ZNegInf
    ELSE LET sq == FDiv(FMul(x, x), r)
         IN  [k |-> "fin", sg |-> Sign(x.n), n |-> sq.n, d |-> sq.d]

\* lines 46-49
calculate_zscore(series, w) ==
    [t \in DOMAIN series |->
        ZDiv(FSub(series[t], RollingMean(series, w, t)),
             RollingStd(series, w, t))]

(***************************************************************************)
(* backtest                                                                *)
(***************************************************************************)
\* z < c for a z-score z and a float c; False when z is NaN
ZLt(z, c) ==
    CASE z.k = "nan" -> FALSE
      [] z.k = "inf" -> FALSE
      [] z.k = "ninf" -> TRUE
      [] OTHER ->
           IF c.n > 0 THEN z.sg <= 0 \/ z.n * c.d * c.d < c.n * c.n * z.d
           ELSE IF c.n = 0 THEN z.sg < 0
           ELSE z.sg < 0 /\ z.n * c.d * c.d > c.n * c.n * z.d

ZNeg(z) ==
    CASE z.k = "nan" -> z
      [] z.k = "inf" -> ZNegInf
      [] z.k = "ninf" -> ZInf
      [] OTHER -> [z EXCEPT !.sg = -z.sg]

\* z > c
ZGt(z, c) == ZLt(ZNeg(z), FNeg(c))

\* a variant of line 59 that compares with +entry_threshold
LongColumn_NoNegation(z, entry_threshold_) ==
    IF ZLt(z, entry_threshold_) THEN 1 ELSE 0

\* line 59: (z_score < -entry_threshold) * 1.0
LongColumn(z, entry_threshold_) ==
    IF ZLt(z, FNeg(entry_threshold_)) THEN 1 ELSE 0

\* a variant of line 60 that drops the sign of the short leg
ShortColumn_Positive(z, entry_threshold_) ==
    IF ZGt(z, entry_threshold_) THEN 1 ELSE 0

\* a variant of line 60 written as ~(z_score <= entry_threshold), which is
\* True on NaN
ShortColumn_NotLe(z, entry_threshold_) ==
    IF ZLt(z, entry_threshold_)
          \/ (z.k = "fin" /\ ~ZGt(z, entry_threshold_)) THEN 0 ELSE -1

\* line 60: (z_score > entry_threshold) * -1.0
ShortColumn(z, entry_threshold_) ==
    IF ZGt(z, entry_threshold_) THEN -1 ELSE 0

\* a variant of backtest that does what its docstring says: a position
\* entered beyond the entry band is held until the z-score comes back inside
\* the exit band
RECURSIVE HeldTotal(_, _, _, _)
HeldTotal(z_score_, entry_threshold_, exit_threshold_, t) ==
    IF t = 0 THEN 0
    ELSE LET z == z_score_[t]
             prev == HeldTotal(z_score_, entry_threshold_, exit_threshold_,
                               t - 1)
         IN  IF ZLt(z, FNeg(entry_threshold_)) THEN 1
             ELSE IF ZGt(z, entry_threshold_) THEN -1
             ELSE IF prev = 1 /\ ZLt(z, FNeg(exit_threshold_)) THEN 1
             ELSE IF prev = -1 /\ ZGt(z, exit_threshold_) THEN -1
             ELSE 0

backtest_hold(spread_, z_score_, entry_threshold_, exit_threshold_) ==
    [t \in DOMAIN spread_ |->
        LET tot == HeldTotal(z_score_, entry_threshold_, exit_threshold_, t)
        IN  [Long |-> IF tot = 1 THEN 1 ELSE 0,
             Short |-> IF tot = -1 THEN -1 ELSE 0,
             Total |-> tot]]

\* lines 58-63: one row per index of spread; z_score shares that index
backtest(spread_, z_score_, entry_threshold_, exit_threshold_) ==
    [t \in DOMAIN spread_ |->
        LET l == LongColumn(z_score_[t], entry_threshold_)
            s == ShortColumn(z_score_[t], entry_threshold_)
        IN  [Long |-> l, Short |-> s, Total |-> l + s]]

(***************************************************************************)
(* plot_results                                                            *)
(***************************************************************************)
\* lines 86-91: the markers drawn on the z-score panel
plot_results(spread_, z_score_, positions_) ==
    [spread |-> spread_, z_score |-> z_score_,
     buy_signals |-> {t \in DOMAIN positions_ : positions_[t].Total = 1},
     sell_signals |-> {t \in DOMAIN positions_ : positions_[t].Total = -1}]

(***************************************************************************)
(* The script (lines 98-134) as a state machine.  pc is the statement the  *)
(* script is about to run; calls is the sequence of functions called so    *)
(* far; error is the exception that ended the run, if any.                 *)
(***************************************************************************)
DefaultWindow == 30

DefaultEntry == F(2)

DefaultExit == Fin(1, 2)

Significance == Fin(1, 20)

\* a variant of line 121 with the test inverted
Cointegrated_Inverted(p) == FLt(Significance, p)

\* line 121: p_value < 0.05
Cointegrated(p) == FLt(p, Significance)

NoPlot ==
    [spread |-> <<>>, z_score |-> <<>>, buy_signals |-> {}, sell_signals |-> {}]

\* all sequences over S of length 0..n
SeqsUpTo(S, n) == UNION {[1..m -> S] : m \in 0..n}

\* prices a download may hold; NaN marks a missing quote
PriceVals == {F(1), F(2), NaN}

Rows == [a : PriceVals, b : PriceVals]

\* a month and a half of quotes whose last day breaks the relation
LongFrame ==
    [i \in 1..(DefaultWindow + 1) |->
        [a |-> F(1 + (i % 2)),
         b |-> IF i = DefaultWindow + 1 THEN F(9) ELSE F(2 + (i % 3))]]

Frames == SeqsUpTo(Rows, MaxRows) \cup {LongFrame}

RECURSIVE dropna(_)
dropna(frame) ==
    IF frame = <<>> THEN <<>>
    ELSE IF IsNaN(Head(frame).a) \/ IsNaN(Head(frame).b)
         THEN dropna(Tail(frame))
         ELSE <<Head(frame)>> \o dropna(Tail(frame))

Column(frame, c) == [t \in DOMAIN frame |-> frame[t][c]]

Idle ==
    /\ calls = <<>>
    /\ data = <<>>
    /\ p_value = NaN
    /\ hedge_ratio = NaN
    /\ positions = <<>>
    /\ plot = NoPlot
    /\ error = "none"

Init ==
    /\ Idle
    /\ pc = "download_data"
    /\ series_a = <<>>
    /\ series_b = <<>>
    /\ spread = <<>>
    /\ window = 0
    /\ z_score = <<>>
    /\ entry_threshold = NaN
    /\ exit_threshold = NaN

\* line 105
DownloadData ==
    /\ pc = "download_data"
    /\ \E frame \in Frames : data' = frame
    /\ calls' = Append(calls, "download_data")
    /\ pc' = "data_empty"
    /\ UNCHANGED <<series_a, series_b, p_value, hedge_ratio, spread, window,
                   z_score, entry_threshold, exit_threshold, positions, plot,
                   error>>

\* lines 107-108
NoData ==
    /\ pc = "data_empty"
    /\ Len(data) = 0
    /\ pc' = "done"
    /\ UNCHANGED <<calls, data, series_a, series_b, p_value, hedge_ratio,
                   spread, window, z_score, entry_threshold, exit_threshold,
                   positions, plot, error>>

\* lines 109-113
SelectSeries ==
    /\ pc = "data_empty"
    /\ Len(data) # 0
    /\ data' = dropna(data)
    /\ series_a' = Column(data', "a")
    /\ series_b' = Column(data', "b")
    /\ pc' = "check_cointegration"
    /\ UNCHANGED <<calls, p_value, hedge_ratio, spread, window, z_score,
                   entry_threshold, exit_threshold, positions, plot, error>>

\* line 117
CheckCointegration ==
    /\ pc = "check_cointegration"
    /\ calls' = Append(calls, "check_cointegration")
    /\ \E r \in check_cointegration(series_a, series_b) :
          /\ error' = r.error
          /\ p_value' = r.p_value
          /\ hedge_ratio' = r.hedge_ratio
          /\ spread' = r.spread
          /\ pc' = IF r.error = "none" THEN "p_value" ELSE "crashed"
    /\ UNCHANGED <<data, series_a, series_b, window, z_score, entry_threshold,
                   exit_threshold, positions, plot>>

\* lines 121-122
Proceed ==
    /\ pc = "p_value"
    /\ Cointegrated(p_value)
    /\ pc' = "calculate_zscore"
    /\ UNCHANGED <<calls, data, series_a, series_b, p_value, hedge_ratio,
                   spread, window, z_score, entry_threshold, exit_threshold,
                   positions, plot, error>>

\* lines 133-134
NotCointegrated ==
    /\ pc = "p_value"
    /\ ~Cointegrated(p_value)
    /\ pc' = "done"
    /\ UNCHANGED <<calls, data, series_a, series_b, p_value, hedge_ratio,
                   spread, window, z_score, entry_threshold, exit_threshold,
                   positions, plot, error>>

\* calculate_zscore(spread, window=w); rolling() raises on a negative window
CallCalculateZscore(w) ==
    /\ pc = "calculate_zscore"
    /\ calls' = Append(calls, "calculate_zscore")
    /\ window' = w
    /\ IF w < 0
       THEN /\ error' = "ValueError"
            /\ pc' = "crashed"
            /\ UNCHANGED z_score
       ELSE /\ z_score' = calculate_zscore(spread, w)
            /\ pc' = "backtest"
            /\ UNCHANGED error
    /\ UNCHANGED <<data, series_a, series_b, p_value, hedge_ratio, spread,
                   entry_threshold, exit_threshold, positions, plot>>

\* line 125
CalculateZscore == CallCalculateZscore(DefaultWindow)

\* backtest(spread, z_score, e, x)
CallBacktest(e, x) ==
    /\ pc = "backtest"
    /\ calls' = Append(calls, "backtest")
    /\ entry_threshold' = e
    /\ exit_threshold' = x
    /\ positions' = backtest(spread, z_score, e, x)
    /\ pc' = "plot_results"
    /\ UNCHANGED <<data, series_a, series_b, p_value, hedge_ratio, spread,
                   window, z_score, plot, error>>

\* line 128
Backtest == CallBacktest(DefaultEntry, DefaultExit)

\* line 132
PlotResults ==
    /\ pc = "plot_results"
    /\ calls' = Append(calls, "plot_results")
    /\ plot' = plot_results(spread, z_score, positions)
    /\ pc' = "done"
    /\ UNCHANGED <<data, series_a, series_b, p_value, hedge_ratio, spread,
                   window, z_score, entry_threshold, exit_threshold, positions,
                   error>>

Next ==
    \/ DownloadData
    \/ NoData
    \/ SelectSeries
    \/ CheckCointegration
    \/ Proceed
    \/ NotCointegrated
    \/ CalculateZscore
    \/ Backtest
    \/ PlotResults

Spec == Init /\ [][Next]_vars

(***************************************************************************)
(* check_cointegration on every pair of aligned series within the bounds.  *)
(***************************************************************************)
SeriesVals == {F(0), F(1), F(2)}

InitEstimate ==
    /\ Idle
    /\ pc = "check_cointegration"
    /\ \E m \in 0..MaxLen :
          /\ series_a \in [1..m -> SeriesVals]
          /\ series_b \in [1..m -> SeriesVals]
    /\ spread = <<>>
    /\ window = 0
    /\ z_score = <<>>
    /\ entry_threshold = NaN
    /\ exit_threshold = NaN

SpecEstimate == InitEstimate /\ [][CheckCointegration]_vars

(***************************************************************************)
(* calculate_zscore on every spread and window within the bounds.          *)
(***************************************************************************)
InitNormalize ==
    /\ Idle
    /\ pc = "calculate_zscore"
    /\ series_a = <<>>
    /\ series_b = <<>>
    /\ spread \in SeqsUpTo(SeriesVals, MaxLen)
    /\ window \in -1..MaxWindow
    /\ z_score = <<>>
    /\ entry_threshold = NaN
    /\ exit_threshold = NaN

Normalize == CallCalculateZscore(window)

SpecNormalize == InitNormalize /\ [][Normalize]_vars

(***************************************************************************)
(* backtest and plot_results on every z-score series and thresholds within *)
(* the bounds.                                                             *)
(***************************************************************************)
Z(i) == [k |-> "fin", sg |-> Sign(i), n |-> i * i, d |-> 1]

\* sqrt(9/2), a z-score as calculate_zscore produces them
ZRoot == [k |-> "fin", sg |-> 1, n |-> 9, d |-> 2]

ZVals == {ZNaN, ZInf, Z(-3), Z(-1), Z(0), Z(2), ZRoot}

Scenario3 == <<Z(-3), Z(-1), Z(0), Z(1), Z(3)>>

EntryThresholds == {F(-1), F(0), F(2), F(3)}

ExitThresholds == {Fin(1, 2), F(1)}

InitSignals ==
    /\ Idle
    /\ pc = "backtest"
    /\ series_a = <<>>
    /\ series_b = <<>>
    /\ window = 0
    /\ z_score \in SeqsUpTo(ZVals, MaxLen) \cup {Scenario3}
    /\ spread = [t \in DOMAIN z_score |-> F(0)]
    /\ entry_threshold \in EntryThresholds
    /\ exit_threshold \in ExitThresholds

GenerateSignals == CallBacktest(entry_threshold, exit_threshold)

NextSignals ==
    \/ GenerateSignals
    \/ PlotResults

SpecSignals == InitSignals /\ [][NextSignals]_vars

(***************************************************************************)
(* Properties.                                                             *)
(***************************************************************************)
Returned(f) == f \in {calls[i] : i \in DOMAIN calls} /\ error = "none"

HasPositions == Returned("backtest")

Defined(z) == z.k # "nan"

NonNegative(c) == ~IsNaN(c) /\ c.n >= 0

\* the row the classification rule gives a z-score z at entry threshold e
RuleHolds(row, z, e) ==
    /\ ZLt(z, FNeg(e)) => row.Long = 1 /\ row.Total = 1
    /\ ZGt(z, e) => row.Short = -1 /\ row.Total = -1
    /\ ~ZLt(z, FNeg(e)) /\ ~ZGt(z, e) => row.Total = 0

C3_UndefinedIsFlat ==
    HasPositions =>
        /\ DOMAIN positions = DOMAIN z_score
        /\ DOMAIN positions = DOMAIN spread
        /\ \A t \in DOMAIN positions :
              ~Defined(z_score[t]) =>
                  positions[t] = [Long |-> 0, Short |-> 0, Total |-> 0]

C3_Witness ==
    /\ HasPositions
    /\ ~NonNegative(entry_threshold)
    /\ \E t, u \in DOMAIN positions :
          /\ ~Defined(z_score[t])
          /\ positions[t].Total = 0
          /\ Defined(z_score[u])
          /\ positions[u].Long = 1

Active(p) == {t \in DOMAIN p : p[t].Long = 1 \/ p[t].Short = -1}

\* C7: for entry thresholds e1 <= e2, the timestamps active at e2 are active
\* at e1.
C7_Monotone ==
    \A e1, e2 \in EntryThresholds :
        ~FLt(e2, e1) =>
            Active(backtest(spread, z_score, e2, exit_threshold))
                \subseteq Active(backtest(spread, z_score, e1, exit_threshold))

\* raising the threshold from the one used drops some active timestamps and
\* keeps others
C7_Witness ==
    /\ HasPositions
    /\ \E e2 \in EntryThresholds :
          /\ FLt(entry_threshold, e2)
          /\ Active(backtest(spread, z_score, e2, exit_threshold)) # {}
          /\ Active(backtest(spread, z_score, e2, exit_threshold))
                # Active(positions)

\* C9: for an entry threshold >= 0, Long is 0 or 1, Short is -1 or 0, never
\* both active; Total is 1 exactly at the Long timestamps and -1 exactly at the
\* Short ones, which are the markers plot_results draws.
C9_Exclusive ==
    HasPositions /\ NonNegative(entry_threshold) =>
        /\ \A t \in DOMAIN positions :
              /\ positions[t].Long \in {0, 1}
              /\ positions[t].Short \in {-1, 0}
              /\ ~(positions[t].Long = 1 /\ positions[t].Short = -1)
              /\ positions[t].Total \in {-1, 0, 1}
              /\ positions[t].Total = 1 <=> positions[t].Long = 1
              /\ positions[t].Total = -1 <=> positions[t].Short = -1
        /\ Returned("plot_results") =>
              /\ plot.buy_signals =
                    {t \in DOMAIN positions : positions[t].Long = 1}
              /\ plot.sell_signals =
                    {t \in DOMAIN positions : positions[t].Short = -1}

C9_Witness ==
    /\ Returned("plot_results")
    /\ NonNegative(entry_threshold)
    /\ plot.buy_signals # {}
    /\ plot.sell_signals # {}

\* a negative entry threshold: a timestamp both Long and Short, Total 0
BothLegsActive ==
    /\ HasPositions
    /\ ~NonNegative(entry_threshold)
    /\ \E t \in DOMAIN positions :
          /\ positions[t].Long = 1
          /\ positions[t].Short = -1
          /\ positions[t].Total = 0

Called(f) == f \in {calls[i] : i \in DOMAIN calls}

\* the trailing window of w points ending at t has w >= 2 equal values, so
\* its sample standard deviation is exactly zero
WindowStdIsZero(series, w, t) ==
    /\ w >= 2
    /\ t >= w
    /\ \A i, j \in (t - w + 1)..t : FEq(series[i], series[j])

\* w * (series[t] - mean of the trailing window), from pairwise differences
DevTimesW(series, w, t) ==
    FSum([i \in 1..w |-> FSub(series[t], series[t - w + i])])

\* the sum over i < j in the trailing window of (x_i - x_j)^2, which is
\* w * (w - 1) times the sample variance of the window
PairSquares(series, w, t) ==
    FSum([q \in 1..(w * w) |->
            LET i == t - w + 1 + ((q - 1) \div w)
                j == t - w + 1 + ((q - 1) % w)
            IN  IF i < j
                THEN FMul(FSub(series[i], series[j]),
                          FSub(series[i], series[j]))
                ELSE F(0)])

\* z is (series[t] - rollingMean[t]) / rollingStd[t]:
\* z^2 = (w * dev)^2 * (w - 1) / (w * pairs), with the sign of dev
IsZScoreOf(z, series, w, t) ==
    LET dev == DevTimesW(series, w, t)
        pairs == PairSquares(series, w, t)
    IN  /\ z.k = "fin"
        /\ z.sg = Sign(dev.n)
        /\ FEq([k |-> "fin", n |-> z.n, d |-> z.d],
               FDiv(FMul(FMul(dev, dev), F(w - 1)), FMul(F(w), pairs)))

\* C2 as stated: for every spread series and window w, calculate_zscore
\* returns a series of the same length; entry t is "no value" for t < w - 1
\* (model index t < w); for t >= w - 1 it is "no value" when the trailing
\* window's sample standard deviation is exactly zero and otherwise equals
\* (spread[t] - rollingMean[t]) / rollingStd[t].
C2_RollingZScore ==
    Returned("calculate_zscore") =>
        /\ Len(z_score) = Len(spread)
        /\ \A t \in DOMAIN z_score :
              IF t < window \/ WindowStdIsZero(spread, window, t)
              THEN z_score[t] = ZNaN
              ELSE IsZScoreOf(z_score[t], spread, window, t)

\* the same statement on the windows w >= 2
RollingZScoreValidWindow ==
    Returned("calculate_zscore") /\ window >= 2 =>
        /\ Len(z_score) = Len(spread)
        /\ \A t \in DOMAIN z_score :
              IF t < window \/ WindowStdIsZero(spread, window, t)
              THEN z_score[t] = ZNaN
              ELSE IsZScoreOf(z_score[t], spread, window, t)

\* C4: calculate_zscore with window < 2 or window > length of the spread
\* fails with InvalidWindowError and returns no z-score series.
C4_InvalidWindow ==
    Called("calculate_zscore") /\ (window < 2 \/ window > Len(spread)) =>
        /\ error = "InvalidWindowError"
        /\ pc = "crashed"
        /\ z_score = <<>>

ZeroVariance(series) == Len(series) >= 2 /\ IsConstant(series)

\* C5: check_cointegration with a zero-variance series_a or series_b fails
\* with DegenerateSeriesError and returns no (p_value, hedge_ratio, spread).
C5_DegenerateSeries ==
    Called("check_cointegration")
        /\ (ZeroVariance(series_a) \/ ZeroVariance(series_b)) =>
        /\ error = "DegenerateSeriesError"
        /\ pc = "crashed"
        /\ spread = <<>>

\* sum over t of a[t] * b[t]
Dot(a, b) == FSum([t \in DOMAIN a |-> FMul(a[t], b[t])])

\* h solves the normal equation of the regression of b on a and a constant:
\* h * (n * sum a^2 - (sum a)^2) = n * sum a*b - (sum a) * (sum b)
IsSlope(h, a, b) ==
    LET n == F(Len(a))
    IN  FEq(FMul(h, FSub(FMul(n, Dot(a, a)), FMul(FSum(a), FSum(a)))),
            FSub(FMul(n, Dot(a, b)), FMul(FSum(a), FSum(b))))

\* C8: the spread check_cointegration returns has one value per input
\* timestamp and spread[t] = series_b[t] - hedge_ratio * series_a[t], with
\* hedge_ratio the fitted slope; the fitted intercept is not subtracted.
C8_SlopeOnlySpread ==
    Returned("check_cointegration") =>
        /\ DOMAIN spread = DOMAIN series_a
        /\ DOMAIN spread = DOMAIN series_b
        /\ IsSlope(hedge_ratio, series_a, series_b)
        /\ \A t \in DOMAIN spread :
              FEq(FAdd(spread[t], FMul(hedge_ratio, series_a[t])),
                  series_b[t])

\* a fit with a non-zero slope and a non-zero intercept (the mean of the
\* spread is the intercept)
C8_Witness ==
    /\ Returned("check_cointegration")
    /\ ~IsConstant(series_a)
    /\ ~FEq(hedge_ratio, F(0))
    /\ ~FEq(FSum(spread), F(0))

Stages ==
    <<"download_data", "check_cointegration", "calculate_zscore", "backtest",
      "plot_results">>

\* C10: the stages run in the order download, cointegration check, z-score,
\* backtest, plot; an empty download ends the run with no later stage; a
\* p-value that is not below 0.05 ends the run with no z-score, backtest or
\* plot; what is plotted is the backtest of the z-score (window 30) of the
\* spread the cointegration check returned with p-value < 0.05.
C10_Gated ==
    /\ [](/\ Len(calls) <= Len(Stages)
          /\ calls = SubSeq(Stages, 1, Len(calls))
          /\ Called("calculate_zscore") =>
                /\ ~IsNaN(p_value)
                /\ p_value.n * 20 < p_value.d
          /\ Called("backtest") =>
                z_score = calculate_zscore(spread, DefaultWindow)
          /\ Called("plot_results") =>
                /\ positions = backtest(spread, z_score, F(2), Fin(1, 2))
                /\ plot = plot_results(spread, z_score, positions)
                /\ spread \in {r.spread :
                                  r \in check_cointegration(series_a, series_b)})
    /\ [][/\ pc = "data_empty" /\ Len(data) = 0 =>
                pc' = "done" /\ calls' = calls
          /\ pc = "p_value" /\ ~(p_value.k = "fin" /\ p_value.n * 20 < p_value.d)
                => pc' = "done" /\ calls' = calls
          /\ pc \notin {"done", "crashed"}]_vars

\* a completed run that plotted a Short marker
C10_Witness ==
    /\ pc = "done"
    /\ Called("plot_results")
    /\ plot.sell_signals # {}
    /\ Len(spread) > DefaultWindow

====
